---- MODULE Spec2Model ----
(***************************************************************************)
(* Polling and telemetry engine of netmon.                                 *)
(*                                                                         *)
(* The repository holds several revisions of the engine; three of them    *)
(* are modelled here, and the variable "revision" says which one a        *)
(* behaviour runs:                                                         *)
(*   "batched": the chunked poller (src/unnamed/part_008) with the         *)
(*              AlertService and the per-call management session of        *)
(*              mikrotik.ts lines 105-383;                                 *)
(*   "pooled":  backend/src/services/poller.ts (Promise.allSettled over    *)
(*              all nodes) with the pooled management session of           *)
(*              mikrotik.ts lines 15-99;                                   *)
(*   "pooled006": the same poller with the pooled session of               *)
(*              src/unnamed/part_006 (cleanup by address, reads in         *)
(*              sequence).                                                 *)
(* One action is one run of the JavaScript event loop from the completion  *)
(* of an awaited operation to the next await.                              *)
(***************************************************************************)
EXTENDS Integers, Sequences, FiniteSets, TLC

\* ---------------------------------------------------------------- bounds
MaxNodes == 3       \* rows of the nodes table
MaxTicks == 2       \* firings of the 30 s interval timer that are explored
MaxFaults == 1      \* failures of external operations injected per behaviour
ChunkSize == 2      \* chunkArray(nodes, 20): the chunk size, scaled down

\* ------------------------------------------------------------- inventory
NodeIds == 1..MaxNodes
TickIds == 1..MaxTicks

\* ip_address of a row: rows 1 and 2 are provisioned with the same address
\* (the nodes table has no unique constraint on ip_address).
Ip(n) == IF n <= 2 THEN 1 ELSE n - 1

\* auth_user && auth_password of a row: row 3 is a ping-only device.
\* The device whose row has no auth_user
Bare == 3

HasCredsAll(n) == TRUE

HasCreds(n) == n # Bare

Unreachable == -1    \* the sentinel pingHost resolves with
PingMs == 7          \* a measured round trip time
CpuHigh == 90        \* a cpu-load reading above the threshold
TempOk == 40         \* a temperature reading below the threshold
VoltOk == 24         \* a voltage reading above the threshold

VARIABLES
    revision,     \* which revision of the engine runs
    isPolling,    \* the in-flight flag of the poller
    ticks,        \* number of timer firings so far
    skipped,      \* the ticks that logged "Skipping" and returned
    faults,       \* failures injected so far
    cycle,        \* per tick: the timer callback started by it
    task,         \* per tick and node: the async function of batch.map
    alerts,       \* the alerts table: number of active rows per (node_id, type)
    detail,       \* node:full_update messages emitted since the last cycle began
    dashboard,    \* dashboard:update / metrics:update messages emitted since then
    influx,       \* batches flushed to the time-series store since then
    session,      \* per tick and node: the management session that task created
    connectionPool, \* the pool: per address the session pooled for it, or NoClient
    trafficCache, \* MikroTikService.trafficCache: per key the last counters read
    traffic,      \* the last run of the traffic block of fetchMetrics
    chunked,      \* the last call of chunkArray: its arguments and its result
    evaluated,    \* the last call of checkThresholds: the bag and the alerts pushed
    raise,        \* createAlert called in sequence: the call in progress, calls returned
    sockets,      \* per socket.io client: connected, the rooms it has joined
    memory,       \* the last memory usage computed from a resource block
    pollInterval  \* the timer of startPoller: "set", or "cleared" by stopPoller

vars == <<revision, isPolling, ticks, skipped, faults, cycle, task, alerts,
          detail, dashboard, influx, session, connectionPool, trafficCache,
          traffic, chunked, evaluated, raise, sockets, memory, pollInterval>>

\* The state of the poller and of the connection pool
pollVars == <<revision, isPolling, ticks, skipped, faults, cycle, task, alerts,
              detail, dashboard, influx, session, connectionPool>>

\* The state that no step of a poll cycle over nodes without a wan_interface
\* touches
aside == <<trafficCache, traffic, chunked, evaluated, raise, sockets, memory, pollInterval>>

\* ------------------------------------------------------------- chunkArray
Min(a, b) == IF a < b THEN a ELSE b

FloorDiv(a, b) == a \div b

\* Math.ceil(a / b)
CeilDiv(a, b) == (a + b - 1) \div b

\* arr.slice(i * size, i * size + size) of the list 1..len, i counted from 0
Slice(len, size, i) == (i * size + 1) .. Min(len, i * size + size)

\* chunkArray: Math.ceil(len / size) slices; the list of nodes is 1..len
chunkArray(len, size) == [i \in 1..CeilDiv(len, size) |-> Slice(len, size, i - 1)]

AlertTypes == {"OFFLINE", "CPU_HIGH", "TEMP_HIGH", "VOLTAGE_LOW"}

\* ------------------------------------------------------------ initial state
\* A metrics bag is a function from the names of the fields that are present
\* to their values; {} in the source is the bag without fields.
NoMetrics == [f \in {} |-> 0]

MetricsBag(cpu, temp, volt) ==
    [f \in {"cpuLoad", "temperature", "voltage"} |->
        IF f = "cpuLoad" THEN cpu ELSE IF f = "temperature" THEN temp ELSE volt]

Has(m, f) == f \in DOMAIN m

\* metrics.f || 0
OrZero(m, f) == IF Has(m, f) THEN m[f] ELSE 0

\* A session is named by the task that created it.
NoClient == <<0, 0>>

Keys == {Ip(n) : n \in NodeIds}

\* let status = 'OFFLINE'; let latency = -1; let metrics = {}
IdleTask == [pc |-> "idle", status |-> "OFFLINE", latency |-> Unreachable,
             metrics |-> NoMetrics, res |-> 0, h |-> <<0, 0>>, todo |-> << >>,
             client |-> NoClient]

IdleCycle == [pc |-> "none", len |-> 0, batch |-> 0, points |-> << >>,
              updates |-> << >>, outcome |-> "none", db |-> FALSE, released |-> 0]

Revisions == {"batched", "pooled", "pooled006"}

\* The revisions that run poller.ts
Pooled == {"pooled", "pooled006"}

\* ------------------------------------------------------ socket.io rooms
Sockets == {"s1"}

\* The rooms: 'dashboard' and `node:${nodeId}`
DashboardRoom == <<"dashboard", 0>>

NodeRoom(d) == <<"node", d>>

\* A client that is not connected is in no room. "at" is the number of timer
\* ticks that had fired when the rooms of the socket last changed.
\* "last" is how the client last left a room, if it has joined none since.
NoSocket == [connected |-> FALSE, rooms |-> {}, at |-> 0, last |-> <<"none", 0>>]

\* The (node_id, type) pairs for which createAlert is called in sequence
RaisePairs == ({1} \X AlertTypes) \cup {<<2, "OFFLINE">>}

\* No createAlert call is in progress and none has returned
\* ("resolved": resolveAlerts has been called for a node with an active row)
NoRaise == [pc |-> "idle", pair |-> <<0, "">>, found |-> 0,
            returned |-> [k \in RaisePairs |-> 0], resolved |-> FALSE]

\* checkThresholds has not been called yet
NotEvaluated == [called |-> FALSE, metrics |-> NoMetrics, pushed |-> << >>]

\* chunkArray has not been called yet
NoCall == [len |-> 0, size |-> 0, out |-> << >>]

\* --------------------------------------------------------- traffic cache
\* cacheKey = `${ip}:${ifaceName}`: the monitored interface of the addresses
\* of rows 1 and 3
TrafficKeys == {Ip(1), Ip(3)} \X {"ether1"}

\* trafficCache.get(cacheKey) of a key that was never set
NoEntry == [has |-> FALSE, rx |-> 0, tx |-> 0, time |-> 0]

\* No memory usage has been computed yet
NoMemory == [by |-> "none", total |-> 0, free |-> 0, kind |-> "none", usage |-> 0]

\* The traffic block has not run yet
\* ("second" marks the run that follows the first observation of its key)
NoRun == [kind |-> "none", key |-> <<0, "">>, last |-> NoEntry, rx |-> 0, tx |-> 0,
          time |-> 0, rxMbps |-> 0, txMbps |-> 0, second |-> FALSE]

Init ==
    /\ revision \in Revisions
    /\ isPolling = FALSE
    /\ ticks = 0
    /\ skipped = {}
    /\ faults = 0
    /\ cycle = [c \in TickIds |-> IdleCycle]
    /\ task = [c \in TickIds |-> [n \in NodeIds |-> IdleTask]]
    /\ alerts = [k \in NodeIds \X AlertTypes |-> 0]
    /\ detail = {}
    /\ dashboard = {}
    /\ influx = {}
    /\ session = [c \in TickIds |-> [n \in NodeIds |-> "none"]]
    /\ connectionPool = [k \in Keys |-> NoClient]
    /\ trafficCache = [k \in TrafficKeys |-> NoEntry]
    /\ traffic = NoRun
    /\ chunked = NoCall
    /\ evaluated = NotEvaluated
    /\ raise = NoRaise
    /\ sockets = [s \in Sockets |-> NoSocket]
    /\ memory = NoMemory
    /\ pollInterval = "set"

\* --------------------------------------------------------- AlertService
\* checkThresholds: the alert types its rules push, in the order of the code
\* (metrics.x && ... : an absent or zero reading raises nothing)
checkThresholds(m) ==
    (IF OrZero(m, "cpuLoad") # 0 /\ OrZero(m, "cpuLoad") > 85
        THEN <<"CPU_HIGH">> ELSE << >>)
    \o (IF OrZero(m, "temperature") # 0 /\ OrZero(m, "temperature") > 65
        THEN <<"TEMP_HIGH">> ELSE << >>)
    \o (IF OrZero(m, "voltage") # 0 /\ OrZero(m, "voltage") < 20
        THEN <<"VOLTAGE_LOW">> ELSE << >>)

Severity(type) == IF type \in {"OFFLINE", "CPU_HIGH"} THEN "CRITICAL" ELSE "WARNING"

ActiveRowsNone(rows, n, type) == 0

\* SELECT id FROM alerts WHERE node_id = $1 AND type = $2 AND active = TRUE:
\* existing.rows.length
ActiveRows(rows, n, type) == rows[<<n, type>>]

InsertNothing(rows, n, type) == rows

\* INSERT INTO alerts (node_id, type, message, severity, active) VALUES (.., TRUE)
InsertAlert(rows, n, type) == [rows EXCEPT ![<<n, type>>] = @ + 1]

\* ------------------------------------------------- the chunked poller
\* const batches = chunkArray(nodes, 20)
BatchesFirst(c) == chunkArray(Min(cycle[c].len, ChunkSize), ChunkSize)

Batches(c) == chunkArray(cycle[c].len, ChunkSize)

\* batch.map(async (node) => ...): every task of the chunk runs to its first
\* await, the liveness probe
StartBatch(t, c, b) ==
    [t EXCEPT ![c] = [n \in NodeIds |->
        IF n \in b THEN [IdleTask EXCEPT !.pc = "ping"] ELSE t[c][n]]]

\* C. the time-series point of a device
Point(n, r) ==
    [node_id |-> n,
     latency |-> IF r.latency >= 0 THEN r.latency ELSE 0,
     status_code |-> IF r.status = "ONLINE" THEN 1 ELSE 0,
     fields |-> r.metrics]

\* D.1 the dashboard entry of a device
SummaryBare(n, r) ==
    [nodeId |-> n, status |-> r.status,
     latency |-> IF r.latency >= 0 THEN r.latency ELSE 0]

Summary(n, r) ==
    [nodeId |-> n, status |-> r.status,
     latency |-> IF r.latency >= 0 THEN r.latency ELSE 0,
     txRate |-> OrZero(r.metrics, "txRate"),
     rxRate |-> OrZero(r.metrics, "rxRate"),
     cpuLoad |-> OrZero(r.metrics, "cpuLoad"),
     memoryUsage |-> OrZero(r.metrics, "memoryUsage")]

\* D.2 the latency field of the node:full_update message
DetailLatency(r) == r.latency

\* io.to(room).emit(...): the sockets that are in the room receive it
EveryClient(room) == {s \in Sockets : sockets[s].connected}

RoomMembers(room) == {s \in Sockets : room \in sockets[s].rooms}

FullUpdate(c, n, r) ==
    [cycle |-> c, nodeId |-> n, status |-> r.status, latency |-> DetailLatency(r),
     metrics |-> r.metrics, to |-> RoomMembers(NodeRoom(n))]

\* io.to('dashboard').emit('dashboard:update', dashboardUpdates)
DashboardUpdate(c, updates) ==
    [cycle |-> c, updates |-> updates, to |-> RoomMembers(DashboardRoom)]

\* io.emit('metrics:update', updates): every connected socket receives it
MetricsUpdate(c, updates) ==
    [cycle |-> c, updates |-> updates, to |-> {s \in Sockets : sockets[s].connected}]

\* Mutant of FinallyFlag: the finally block does not reset the flag.
FinallyFlagStuck == isPolling

\* The value the finally block stores into isPolling
FinallyFlag == FALSE

\* What Promise.all does with a rejected task: it rejects, the cycle leaves
\* the batch loop for its catch block
AbortsBatch(r) == r.pc = "rejected"

\* The locals of a task that has returned or thrown are gone; what is kept of
\* it is how it ended and the state of the session it opened.
Settled(r) ==
    IF r.pc \in {"done", "rejected"}
    THEN [IdleTask EXCEPT !.pc = r.pc]
    ELSE r

\* The timer callback of cycle c returns: its buffers are gone.
EndCycle(cy, c, how) ==
    [cy EXCEPT ![c] = [IdleCycle EXCEPT !.pc = "ended", !.outcome = how,
                                        !.len = cy[c].len, !.batch = cy[c].batch,
                                        !.db = cy[c].db, !.released = cy[c].released]]

\* await Promise.all(batch.map(...)) of batch number b resolves when every
\* task of the batch has resolved
BatchSettledAny(t, c, b) == \E m \in Batches(c)[b] : t[c][m].pc = "done"

BatchSettled(t, c, b) == \A m \in Batches(c)[b] : t[c][m].pc = "done"

\* One task of cycle c moves to record r; pub says that the step ran the
\* publishing block C, D. The part of the timer callback that the step
\* resumes (the rest of the batch loop, the catch and finally blocks) runs
\* in the same step.
Advance(c, n, r, pub) ==
    LET cy1 == IF pub /\ cycle[c].pc # "ended"
               THEN [cycle EXCEPT ![c].points = Append(@, Point(n, r)),
                                  ![c].updates = Append(@, Summary(n, r))]
               ELSE cycle
        t1 == [task EXCEPT ![c][n] = Settled(r)]
        awaited == cycle[c].pc = "batch"
        b == cycle[c].batch
    IN  /\ detail' = IF pub THEN detail \cup {FullUpdate(c, n, r)} ELSE detail
        /\ IF awaited /\ AbortsBatch(r)
           THEN /\ cycle' = EndCycle(cy1, c, "caught")
                /\ isPolling' = FinallyFlag
                /\ task' = t1
           ELSE IF awaited /\ BatchSettled(t1, c, b)
           THEN IF b < Len(Batches(c))
                THEN /\ cycle' = [cy1 EXCEPT ![c].batch = b + 1]
                     /\ task' = StartBatch(t1, c, Batches(c)[b + 1])
                     /\ UNCHANGED isPolling
                ELSE /\ cycle' = [cy1 EXCEPT ![c].pc = "flush"]
                     /\ task' = t1
                     /\ UNCHANGED isPolling
           ELSE /\ cycle' = cy1
                /\ task' = t1
                /\ UNCHANGED isPolling

\* When a new cycle begins, what the model remembers of the callbacks that
\* have returned and of the tasks that have settled is dropped, and the
\* record of the messages emitted starts afresh.
Forget(cy) ==
    [c \in TickIds |-> IF cy[c].pc = "ended" THEN [IdleCycle EXCEPT !.pc = "ended"]
                        ELSE cy[c]]

ForgetTasks(t) ==
    [c \in TickIds |-> [n \in NodeIds |->
        IF t[c][n].pc \in {"done", "rejected"} /\ cycle[c].pc = "ended"
        THEN IdleTask ELSE t[c][n]]]

ForgetSessions(se) ==
    [c \in TickIds |-> [n \in NodeIds |->
        IF se[c][n] \in {"closed", "failed"} THEN "none" ELSE se[c][n]]]

\* Mutant of Overlaps: the guard is missing, every tick starts a cycle.
OverlapsNever == FALSE

OverlapsWhileLoading ==
    isPolling /\ \E c \in TickIds : cycle[c].pc \in {"load", "dbconnect"}

\* if (isPolling) { logger.warn(...); return; }
Overlaps == isPolling

\* The setInterval callback fires.
Tick ==
    /\ pollInterval = "set"
    /\ ticks < MaxTicks
    /\ ticks' = ticks + 1
    /\ IF Overlaps
       THEN /\ skipped' = skipped \cup {ticks + 1}
            /\ UNCHANGED <<isPolling, cycle>>
            /\ UNCHANGED <<task, detail, dashboard, influx, session>>
       ELSE /\ isPolling' = TRUE
            /\ cycle' = [Forget(cycle) EXCEPT ![ticks + 1].pc =
                            IF revision = "batched" THEN "load" ELSE "dbconnect"]
            /\ task' = ForgetTasks(task)
            /\ detail' = {}
            /\ dashboard' = {}
            /\ influx' = {}
            /\ session' = ForgetSessions(session)
            /\ UNCHANGED skipped
    /\ UNCHANGED <<aside, revision, faults, alerts, connectionPool>>

\* SELECT * FROM nodes returns len rows, or throws.
LoadDone(c) ==
    /\ revision = "batched"
    /\ cycle[c].pc = "load"
    /\ \/ /\ faults < MaxFaults
          /\ faults' = faults + 1
          /\ cycle' = EndCycle(cycle, c, "caught")
          /\ isPolling' = FinallyFlag
          /\ UNCHANGED task
       \/ /\ UNCHANGED faults
          /\ \E len \in 0..MaxNodes :
               IF len = 0
               THEN /\ cycle' = EndCycle(cycle, c, "empty")
                    /\ isPolling' = FinallyFlag
                    /\ UNCHANGED task
               ELSE /\ cycle' = [cycle EXCEPT ![c].pc = "batch", ![c].len = len,
                                              ![c].batch = 1]
                    /\ task' = StartBatch(task, c, chunkArray(len, ChunkSize)[1])
                    /\ UNCHANGED isPolling
    /\ UNCHANGED <<aside, revision, ticks, skipped, alerts, detail, dashboard, influx,
                   session, connectionPool>>

\* pingHost resolves; the task goes on to the metrics fetch, to the OFFLINE
\* alert, or (no credentials) straight to publishing.
PingDone(c, n) ==
    /\ revision = "batched"
    /\ task[c][n].pc = "ping"
    /\ \E lat \in {Unreachable, PingMs} :
         LET r == [task[c][n] EXCEPT !.latency = lat] IN
         IF lat # -1
         THEN IF HasCreds(n)
              THEN Advance(c, n, [r EXCEPT !.status = "ONLINE", !.pc = "connect"], FALSE)
              ELSE Advance(c, n, [r EXCEPT !.status = "ONLINE", !.pc = "update"], TRUE)
         ELSE Advance(c, n, [r EXCEPT !.pc = "alertSel", !.todo = <<"OFFLINE">>], FALSE)
    /\ session' = [session EXCEPT ![c][n] =
                        IF task'[c][n].pc = "connect" THEN "connecting" ELSE @]
    /\ UNCHANGED <<aside, revision, ticks, skipped, faults, alerts, dashboard, influx,
                   connectionPool>>

\* fetchMetrics: conn = await this.connect(...). A failed connect is caught by
\* fetchMetrics, which returns {}; checkThresholds({}) raises nothing.
ConnectDone(c, n) ==
    /\ revision = "batched"
    /\ task[c][n].pc = "connect"
    /\ \/ /\ UNCHANGED faults
          /\ session' = [session EXCEPT ![c][n] = "open"]
          /\ Advance(c, n, [task[c][n] EXCEPT !.pc = "resource", !.client = <<c, n>>], FALSE)
       \/ /\ faults < MaxFaults
          /\ faults' = faults + 1
          /\ session' = [session EXCEPT ![c][n] = "failed"]
          /\ Advance(c, n, [task[c][n] EXCEPT !.pc = "update", !.metrics = NoMetrics], TRUE)
    /\ UNCHANGED <<aside, revision, ticks, skipped, alerts, dashboard, influx, connectionPool>>

\* 1. /system/resource/print answers, or fails and leaves res = {}
ResourceDone(c, n) ==
    /\ revision = "batched"
    /\ task[c][n].pc = "resource"
    /\ \/ /\ UNCHANGED faults
          /\ Advance(c, n, [task[c][n] EXCEPT !.pc = "health", !.res = CpuHigh], FALSE)
       \/ /\ faults < MaxFaults
          /\ faults' = faults + 1
          /\ Advance(c, n, [task[c][n] EXCEPT !.pc = "health", !.res = 0], FALSE)
    /\ UNCHANGED <<aside, revision, ticks, skipped, alerts, dashboard, influx, session,
                   connectionPool>>

\* 2. /system/health/print answers, or fails and leaves h = {}
HealthDone(c, n) ==
    /\ revision = "batched"
    /\ task[c][n].pc = "health"
    /\ \/ /\ UNCHANGED faults
          /\ Advance(c, n, [task[c][n] EXCEPT !.pc = "ppp", !.h = <<TempOk, VoltOk>>], FALSE)
       \/ /\ faults < MaxFaults
          /\ faults' = faults + 1
          /\ Advance(c, n, [task[c][n] EXCEPT !.pc = "ppp", !.h = <<0, 0>>], FALSE)
    /\ UNCHANGED <<aside, revision, ticks, skipped, alerts, dashboard, influx, session,
                   connectionPool>>

\* /ppp/active/print answers or fails (both are absorbed; activePeers is not
\* modelled); fetchMetrics returns the bag and its finally block closes the
\* session; then AlertService.checkThresholds(node, metrics) starts.
PppDone(c, n) ==
    /\ revision = "batched"
    /\ task[c][n].pc = "ppp"
    /\ LET m == MetricsBag(task[c][n].res, task[c][n].h[1], task[c][n].h[2])
           r == [task[c][n] EXCEPT !.metrics = m, !.todo = checkThresholds(m)]
       IN  IF r.todo = << >>
           THEN Advance(c, n, [r EXCEPT !.pc = "update"], TRUE)
           ELSE Advance(c, n, [r EXCEPT !.pc = "alertSel"], FALSE)
    /\ session' = [session EXCEPT ![c][n] = "closed"]
    /\ UNCHANGED <<aside, revision, ticks, skipped, faults, alerts, dashboard, influx,
                   connectionPool>>

\* createAlert returned: the for loop of checkThresholds takes the next
\* alert, or the task goes on to publishing.
AlertReturned(c, n, r) ==
    IF Tail(r.todo) = << >>
    THEN Advance(c, n, [r EXCEPT !.todo = << >>, !.pc = "update"], TRUE)
    ELSE Advance(c, n, [r EXCEPT !.todo = Tail(r.todo), !.pc = "alertSel"], FALSE)

\* A query of createAlert threw. checkThresholds is called inside the try
\* block of the task (status WARNING); createOfflineAlert is not, and its
\* exception rejects the task.
AlertThrew(c, n, r) ==
    IF Head(r.todo) = "OFFLINE"
    THEN Advance(c, n, [r EXCEPT !.todo = << >>, !.pc = "rejected"], FALSE)
    ELSE Advance(c, n, [r EXCEPT !.todo = << >>, !.status = "WARNING",
                                 !.pc = "update"], TRUE)

\* createAlert: the SELECT for an active alert of the same type returns.
AlertSelectDone(c, n) ==
    /\ revision = "batched"
    /\ task[c][n].pc = "alertSel"
    /\ \/ /\ UNCHANGED faults
          /\ IF ActiveRows(alerts, n, Head(task[c][n].todo)) = 0
             THEN Advance(c, n, [task[c][n] EXCEPT !.pc = "alertIns"], FALSE)
             ELSE AlertReturned(c, n, task[c][n])
       \/ /\ faults < MaxFaults
          /\ faults' = faults + 1
          /\ AlertThrew(c, n, task[c][n])
    /\ UNCHANGED <<aside, revision, ticks, skipped, alerts, dashboard, influx, session,
                   connectionPool>>

\* createAlert: the INSERT returns.
AlertInsertDone(c, n) ==
    /\ revision = "batched"
    /\ task[c][n].pc = "alertIns"
    /\ \/ /\ UNCHANGED faults
          /\ alerts' = InsertAlert(alerts, n, Head(task[c][n].todo))
          /\ AlertReturned(c, n, task[c][n])
       \/ /\ faults < MaxFaults
          /\ faults' = faults + 1
          /\ UNCHANGED alerts
          /\ AlertThrew(c, n, task[c][n])
    /\ UNCHANGED <<aside, revision, ticks, skipped, dashboard, influx, session, connectionPool>>

\* E. UPDATE nodes SET status ... returns; a failure is caught and logged.
UpdateDone(c, n) ==
    /\ revision = "batched"
    /\ task[c][n].pc = "update"
    /\ \/ UNCHANGED faults
       \/ /\ faults < MaxFaults
          /\ faults' = faults + 1
    /\ Advance(c, n, [task[c][n] EXCEPT !.pc = "done"], FALSE)
    /\ UNCHANGED <<aside, revision, ticks, skipped, alerts, dashboard, influx, session,
                   connectionPool>>

\* 3. writeApi.flush() returns; 4. the dashboard summary is emitted; finally.
FlushDone(c) ==
    /\ revision = "batched"
    /\ cycle[c].pc = "flush"
    /\ \/ /\ UNCHANGED faults
          /\ influx' = influx \cup {[cycle |-> c, points |-> cycle[c].points]}
          /\ dashboard' = dashboard \cup {DashboardUpdate(c, cycle[c].updates)}
          /\ cycle' = EndCycle(cycle, c, "ok")
       \/ /\ faults < MaxFaults
          /\ faults' = faults + 1
          /\ UNCHANGED <<influx, dashboard>>
          /\ cycle' = EndCycle(cycle, c, "caught")
    /\ isPolling' = FinallyFlag
    /\ UNCHANGED <<aside, revision, ticks, skipped, task, alerts, detail, session,
                   connectionPool>>

\* ------------------------------------- poller.ts with the pooled session
\* The finally block of poller.ts: if (dbClient) dbClient.release();
\* isPolling = false. A second release of the same client throws, and the
\* exception leaves the callback.
PoolFinally(c, how) ==
    LET cy == cycle[c]
        n == IF cy.db THEN cy.released + 1 ELSE cy.released
        end == [IdleCycle EXCEPT !.pc = "ended", !.len = cy.len, !.db = cy.db,
                                 !.released = n,
                                 !.outcome = IF n > 1 THEN "escaped" ELSE how]
    IN  /\ cycle' = [cycle EXCEPT ![c] = end]
        /\ isPolling' = IF n > 1 THEN isPolling ELSE FinallyFlag

\* dbClient = await pgPool.connect()
DbConnectDone(c) ==
    /\ revision \in Pooled
    /\ cycle[c].pc = "dbconnect"
    /\ \/ /\ UNCHANGED <<faults, isPolling>>
          /\ cycle' = [cycle EXCEPT ![c].pc = "load", ![c].db = TRUE]
       \/ /\ faults < MaxFaults
          /\ faults' = faults + 1
          /\ PoolFinally(c, "caught")
    /\ UNCHANGED <<aside, revision, ticks, skipped, task, alerts, detail, dashboard, influx,
                   session, connectionPool>>

\* nodes.map(async (node) => ...): every task runs to its first await
StartAll(t, c, len) ==
    [t EXCEPT ![c] = [n \in NodeIds |->
        IF n <= len THEN [IdleTask EXCEPT !.pc = "ping"] ELSE t[c][n]]]

\* SELECT * FROM nodes returns; an empty list releases the client and
\* returns from inside the try block, so that the finally block runs too.
QueryNodesDone(c) ==
    /\ revision \in Pooled
    /\ cycle[c].pc = "load"
    /\ \/ /\ faults < MaxFaults
          /\ faults' = faults + 1
          /\ PoolFinally(c, "caught")
          /\ UNCHANGED task
       \/ /\ UNCHANGED faults
          /\ \E len \in 0..MaxNodes :
               IF len = 0
               THEN LET cy == cycle[c]
                        end == [IdleCycle EXCEPT !.pc = "ended", !.db = cy.db,
                                                 !.released = cy.released + 2,
                                                 !.outcome = "escaped"]
                    IN  /\ cycle' = [cycle EXCEPT ![c] = end]
                        /\ isPolling' = FALSE
                        /\ UNCHANGED task
               ELSE /\ cycle' = [cycle EXCEPT ![c].pc = "settle", ![c].len = len]
                    /\ task' = StartAll(task, c, len)
                    /\ UNCHANGED isPolling
    /\ UNCHANGED <<aside, revision, ticks, skipped, alerts, detail, dashboard, influx,
                   session, connectionPool>>

\* latency: latency === -1 ? 0 : latency
ResultLatency(lat) == IF lat = -1 THEN 0 ELSE lat

\* A task of poller.ts moves to record r; when it was the last one to settle,
\* Promise.allSettled resolves and the result loop issues its first UPDATE.
PoolAdvance(c, n, r) ==
    LET t1 == [task EXCEPT ![c][n] = r] IN
    /\ task' = t1
    /\ IF cycle[c].pc = "settle" /\ \A m \in 1..cycle[c].len : t1[c][m].pc = "done"
       THEN cycle' = [cycle EXCEPT ![c].pc = "results", ![c].batch = 1]
       ELSE UNCHANGED cycle

\* connectionPool.has(ip)
PoolHas(pool, ip) == pool[ip] # NoClient

\* Where a fetchMetrics that holds a client waits first: mikrotik.ts awaits
\* both reads at once, part_006 the resource read.
FirstRead == IF revision = "pooled" THEN "writes" ELSE "resource"

\* pingHost resolves. A reachable node with credentials calls fetchMetrics,
\* which calls getClient: the pooled client is returned and both reads are
\* issued on it, or a new client is created and its connect is awaited.
ProbeDone(c, n) ==
    /\ revision \in Pooled
    /\ task[c][n].pc = "ping"
    /\ \E lat \in {Unreachable, PingMs} :
         LET r == [task[c][n] EXCEPT !.latency = ResultLatency(lat)] IN
         IF lat # -1 /\ HasCreds(n)
         THEN IF PoolHas(connectionPool, Ip(n))
              THEN /\ PoolAdvance(c, n, [r EXCEPT !.status = "ONLINE", !.pc = FirstRead,
                                                   !.client = connectionPool[Ip(n)]])
                   /\ UNCHANGED session
              ELSE /\ PoolAdvance(c, n, [r EXCEPT !.status = "ONLINE", !.pc = "connect"])
                   /\ session' = [session EXCEPT ![c][n] = "connecting"]
         ELSE /\ PoolAdvance(c, n, [r EXCEPT !.pc = "done",
                        !.status = IF lat # -1 THEN "ONLINE" ELSE "OFFLINE"])
              /\ UNCHANGED session
    /\ UNCHANGED <<aside, revision, isPolling, ticks, skipped, faults, alerts, detail,
                   dashboard, influx, connectionPool>>


\* connectionPool.set(ip, client)
PoolSet(pool, ip, cl) == [pool EXCEPT ![ip] = cl]

\* The catch block of the pooled fetchMetrics: whatever client is pooled for
\* the address is closed and removed.
EvictPool(pool, ip) == [pool EXCEPT ![ip] = NoClient]

EvictSession(pool, se, ip) ==
    IF PoolHas(pool, ip)
    THEN [se EXCEPT ![pool[ip][1]][pool[ip][2]] = "closed"]
    ELSE se

\* cleanup(ip) of part_006: whatever client is pooled for the address is
\* closed and removed.
cleanup(pool, ip) == [pool EXCEPT ![ip] = NoClient]

cleanupSession(pool, se, ip) ==
    IF PoolHas(pool, ip)
    THEN [se EXCEPT ![pool[ip][1]][pool[ip][2]] = "closed"]
    ELSE se

\* await client.connect() of getClient returns: the client is pooled and
\* fetchMetrics issues its reads; or it throws: fetchMetrics evicts and
\* rethrows (part_006: returns {}), the poller keeps status ONLINE without
\* metrics.
ClientConnectDone(c, n) ==
    /\ revision \in Pooled
    /\ task[c][n].pc = "connect"
    /\ \/ /\ UNCHANGED faults
          /\ session' = [session EXCEPT ![c][n] = "open"]
          /\ connectionPool' = PoolSet(connectionPool, Ip(n), <<c, n>>)
          /\ PoolAdvance(c, n, [task[c][n] EXCEPT !.pc = FirstRead, !.client = <<c, n>>])
       \/ /\ faults < MaxFaults
          /\ faults' = faults + 1
          /\ session' = [(IF revision = "pooled"
                           THEN EvictSession(connectionPool, session, Ip(n))
                           ELSE cleanupSession(connectionPool, session, Ip(n)))
                            EXCEPT ![c][n] = "failed"]
          /\ connectionPool' = IF revision = "pooled"
                               THEN EvictPool(connectionPool, Ip(n))
                               ELSE cleanup(connectionPool, Ip(n))
          /\ PoolAdvance(c, n, [task[c][n] EXCEPT !.pc = "done"])
    /\ UNCHANGED <<aside, revision, isPolling, ticks, skipped, alerts, detail, dashboard,
                   influx>>

\* Promise.allSettled of the two reads resolves; a read that failed leaves
\* its block empty, and the fields are parsed from '0'.
WritesDone(c, n) ==
    /\ revision = "pooled"
    /\ task[c][n].pc = "writes"
    /\ \E resOk \in BOOLEAN, healthOk \in BOOLEAN :
         LET k == (IF resOk THEN 0 ELSE 1) + (IF healthOk THEN 0 ELSE 1)
             m == MetricsBag(IF resOk THEN CpuHigh ELSE 0,
                             IF healthOk THEN TempOk ELSE 0,
                             IF healthOk THEN VoltOk ELSE 0)
         IN  /\ faults + k <= MaxFaults
             /\ faults' = faults + k
             /\ PoolAdvance(c, n, [task[c][n] EXCEPT !.pc = "done", !.metrics = m,
                                                     !.client = NoClient])
    /\ UNCHANGED <<aside, revision, isPolling, ticks, skipped, alerts, detail, dashboard,
                   influx, session, connectionPool>>

\* part_006: the resource read returns, or throws: fetchMetrics runs
\* cleanup(ip) and returns {}.
ResourceReadDone(c, n) ==
    /\ revision = "pooled006"
    /\ task[c][n].pc = "resource"
    /\ \/ /\ UNCHANGED <<faults, session, connectionPool>>
          /\ PoolAdvance(c, n, [task[c][n] EXCEPT !.pc = "health", !.res = CpuHigh])
       \/ /\ faults < MaxFaults
          /\ faults' = faults + 1
          /\ session' = cleanupSession(connectionPool, session, Ip(n))
          /\ connectionPool' = cleanup(connectionPool, Ip(n))
          /\ PoolAdvance(c, n, [task[c][n] EXCEPT !.pc = "done", !.client = NoClient])
    /\ UNCHANGED <<aside, revision, isPolling, ticks, skipped, alerts, detail, dashboard,
                   influx>>

\* part_006: the health read returns, or fails (absorbed: health = {})
HealthReadDone(c, n) ==
    /\ revision = "pooled006"
    /\ task[c][n].pc = "health"
    /\ \E healthOk \in BOOLEAN :
         LET m == MetricsBag(task[c][n].res,
                             IF healthOk THEN TempOk ELSE 0,
                             IF healthOk THEN VoltOk ELSE 0)
         IN  /\ healthOk \/ faults < MaxFaults
             /\ faults' = IF healthOk THEN faults ELSE faults + 1
             /\ PoolAdvance(c, n, [task[c][n] EXCEPT !.pc = "done", !.metrics = m,
                                                     !.res = 0, !.client = NoClient])
    /\ UNCHANGED <<aside, revision, isPolling, ticks, skipped, alerts, detail, dashboard,
                   influx, session, connectionPool>>

\* The point and the update entry of one result of poller.ts
PoolPoint(n, r) ==
    [node_id |-> n, latency |-> r.latency, status |-> r.status, fields |-> r.metrics]

PoolUpdate(n, r) ==
    [nodeId |-> n, status |-> r.status, latency |-> r.latency,
     cpuLoad |-> OrZero(r.metrics, "cpuLoad")]

\* 3. the UPDATE of the result loop returns for result number cycle[c].batch
ResultUpdateDone(c) ==
    /\ revision \in Pooled
    /\ cycle[c].pc = "results"
    /\ LET i == cycle[c].batch IN
       \/ /\ UNCHANGED <<faults, isPolling>>
          /\ cycle' = [cycle EXCEPT
                ![c].points = Append(@, PoolPoint(i, task[c][i])),
                ![c].updates = Append(@, PoolUpdate(i, task[c][i])),
                ![c].batch = i + 1,
                ![c].pc = IF i < cycle[c].len THEN "results" ELSE "flush"]
       \/ /\ faults < MaxFaults
          /\ faults' = faults + 1
          /\ PoolFinally(c, "caught")
    /\ UNCHANGED <<aside, revision, ticks, skipped, task, alerts, detail, dashboard, influx,
                   session, connectionPool>>

\* 4. writeApi.flush() returns; 5. io.emit('metrics:update', updates); finally
WriteFlushDone(c) ==
    /\ revision \in Pooled
    /\ cycle[c].pc = "flush"
    /\ \/ /\ UNCHANGED faults
          /\ influx' = influx \cup {[cycle |-> c, points |-> cycle[c].points]}
          /\ dashboard' = dashboard \cup {MetricsUpdate(c, cycle[c].updates)}
          /\ PoolFinally(c, "ok")
       \/ /\ faults < MaxFaults
          /\ faults' = faults + 1
          /\ UNCHANGED <<influx, dashboard>>
          /\ PoolFinally(c, "caught")
    /\ UNCHANGED <<aside, revision, ticks, skipped, task, alerts, detail, session,
                   connectionPool>>

\* Mutant of cleanupPool: the listener closes the client, the pool keeps it.
cleanupPoolKeeps(pool, ip, cl) == pool

\* cleanup of getClient: only the client that is pooled removes itself
cleanupPool(pool, ip, cl) == IF pool[ip] = cl THEN [pool EXCEPT ![ip] = NoClient] ELSE pool

\* The session of a client reports 'error' or 'close'; its listener runs
\* cleanup. In mikrotik.ts a client that is not the pooled one leaves the
\* pool alone; in part_006 it evicts the pooled client of its address.
ClientEvent(c, n) ==
    /\ revision \in Pooled
    /\ session[c][n] = "open"
    /\ faults < MaxFaults
    /\ faults' = faults + 1
    /\ \E ev \in {"error", "close"} :
         session' = [(IF revision = "pooled" THEN session
                      ELSE cleanupSession(connectionPool, session, Ip(n)))
                        EXCEPT ![c][n] =
                            IF connectionPool[Ip(n)] = <<c, n>> \/ ev = "close"
                            THEN "closed" ELSE "errored"]
    /\ connectionPool' = IF revision = "pooled"
                         THEN cleanupPool(connectionPool, Ip(n), <<c, n>>)
                         ELSE cleanup(connectionPool, Ip(n))
    /\ UNCHANGED <<aside, revision, isPolling, ticks, skipped, cycle, task, alerts, detail,
                   dashboard, influx>>

Next ==
    \/ Tick
    \/ \E c \in TickIds :
         \/ LoadDone(c)
         \/ FlushDone(c)
         \/ DbConnectDone(c)
         \/ QueryNodesDone(c)
         \/ ResultUpdateDone(c)
         \/ WriteFlushDone(c)
    \/ \E c \in TickIds, n \in NodeIds :
         \/ PingDone(c, n)
         \/ ConnectDone(c, n)
         \/ ResourceDone(c, n)
         \/ HealthDone(c, n)
         \/ PppDone(c, n)
         \/ AlertSelectDone(c, n)
         \/ AlertInsertDone(c, n)
         \/ UpdateDone(c, n)
         \/ ProbeDone(c, n)
         \/ ClientConnectDone(c, n)
         \/ WritesDone(c, n)
         \/ ResourceReadDone(c, n)
         \/ HealthReadDone(c, n)
         \/ ClientEvent(c, n)

Spec == Init /\ [][Next]_vars

\* ================================================================ claims
Tasks == TickIds \X NodeIds

\* The timer callback started by tick c has not returned yet.
Running(c) == cycle[c].pc \notin {"none", "ended"}

RunningCycles == {c \in TickIds : Running(c)}

\* The sessions for address k in state st
SessionsIn(k, st) == {t \in Tasks : Ip(t[2]) = k /\ session[t[1]][t[2]] = st}

C2_SingleFlight ==
    revision \in Pooled => \A k \in Keys : Cardinality(SessionsIn(k, "connecting")) <= 1

\* C3: the alert store holds at most one active row per (device, type).
C3_OneActiveAlertPerPair == \A k \in NodeIds \X AlertTypes : alerts[k] <= 1

\* The devices that are being probed or hold a management session
Busy == {t \in Tasks : \/ task[t[1]][t[2]].pc = "ping"
                       \/ session[t[1]][t[2]] \in {"connecting", "open"}}

\* C4: never more than the chunk size of devices are being probed or hold an
\* open management session.
C4_BoundedConcurrency == Cardinality(Busy) <= ChunkSize

\* C5: a failure of one device is captured, not propagated out of its
\* chunk (no task of a chunk rejects), and every device of the snapshot is
\* processed in the cycle (a cycle that has ended left no device unstarted).
C5_FailureIsolated ==
    /\ \A t \in Tasks : task[t[1]][t[2]].pc # "rejected"
    /\ \A c \in TickIds : cycle[c].pc = "ended" =>
            \A n \in 1..cycle[c].len : task[c][n].pc # "idle"

\* What has been published for device n by the task of cycle c that has
\* run its publishing block: detail messages, dashboard entries, points.
DetailOf(c, n) == {m \in detail : m.cycle = c /\ m.nodeId = n}

EntriesOf(c, n) ==
    {cycle[c].updates[i] : i \in {j \in 1..Len(cycle[c].updates) :
                                    cycle[c].updates[j].nodeId = n}}

PointsOf(c, n) ==
    {cycle[c].points[i] : i \in {j \in 1..Len(cycle[c].points) :
                                   cycle[c].points[j].node_id = n}}

\* C6: for a device whose probe failed, the dashboard entry, the detail
\* message and the time-series point carry latency 0 (never -1), and the
\* entry and the message carry status OFFLINE.
C6_OfflinePublishedAsZero ==
    \A c \in TickIds, n \in NodeIds :
        (revision = "batched" /\ task[c][n].pc = "update"
            /\ task[c][n].latency = Unreachable)
        => /\ \A m \in DetailOf(c, n) : m.status = "OFFLINE" /\ m.latency = 0
           /\ \A e \in EntriesOf(c, n) : e.status = "OFFLINE" /\ e.latency = 0
           /\ \A q \in PointsOf(c, n) : q.latency = 0

\* C7: whenever a running cycle ends (normally, on an empty list, or by a
\* throw) the in-flight flag is false afterwards, and a tick that fires when
\* no cycle is running starts a cycle.
C7_FlagReleased ==
    [][ /\ \A c \in TickIds :
              (Running(c) /\ cycle'[c].pc = "ended") => isPolling' = FALSE
        /\ (RunningCycles = {} /\ ticks' = ticks + 1)
              => cycle'[ticks'].pc \notin {"none", "ended"} ]_vars

\* C7 witness: a cycle has ended through its catch block, and the tick after
\* an ended cycle has started the next cycle, which has ended too.
C7_Witness ==
    /\ cycle[1].pc = "ended"
    /\ cycle[2].pc = "ended" /\ cycle[2].outcome = "caught"
    /\ isPolling = FALSE

\* C8: the pool manager keeps at most one live management session per
\* address.
C8_OneLiveSessionPerKey ==
    revision \in Pooled => \A k \in Keys : Cardinality(SessionsIn(k, "open")) <= 1

\* C9: a client whose session has reported an error or a close is not in the
\* pool, so that getClient never returns it and the next getClient for the
\* address connects afresh: every pooled client is a live one, and a task
\* that is handed a client is handed a live one.
C9_NoStaleHandle ==
    [][ /\ \A k \in Keys : PoolHas(connectionPool', k) =>
              session'[connectionPool'[k][1]][connectionPool'[k][2]] = "open"
        /\ \A t \in Tasks :
              (task[t[1]][t[2]].pc \in {"ping", "connect"}
                    /\ task'[t[1]][t[2]].pc = FirstRead)
              => session'[task'[t[1]][t[2]].client[1]][task'[t[1]][t[2]].client[2]] = "open"
        /\ \A t \in Tasks :
              (session[t[1]][t[2]] = "open" /\ session'[t[1]][t[2]] # "open")
              => connectionPool'[Ip(t[2])] # t ]_vars

\* C9 witness: a pooled client has reported an event and was evicted, and a
\* later getClient for the address is connecting afresh.
C9_Witness ==
    \E k \in Keys :
        /\ SessionsIn(k, "closed") # {}
        /\ SessionsIn(k, "connecting") # {}
        /\ SessionsIn(k, "failed") = {}
        /\ ~PoolHas(connectionPool, k)
        /\ faults > 0

\* C10: no opened session is left unclosed and absent from the pool: a live
\* session is pooled or is the one a running fetch is reading from.
InUse(t) == \E u \in Tasks : /\ task[u[1]][u[2]].client = t
                             /\ task[u[1]][u[2]].pc \in {"resource", "health", "ppp", "writes"}

C10_NoLeakedSession ==
    \A t \in Tasks : session[t[1]][t[2]] = "open" =>
        (connectionPool[Ip(t[2])] = t \/ InUse(t))

\* The tasks whose node answered the probe, whose management connect failed,
\* and whose fetch has returned to the poller
ConnectFailed == {t \in Tasks : /\ session[t[1]][t[2]] = "failed"
                                /\ task[t[1]][t[2]].pc \in {"update", "done"}}

\* C11: a device that answered the probe and whose management connect failed
\* has status WARNING for the cycle, no metrics in its result, and no pool
\* entry for its address when its fetch has returned.
C11_WarningOnConnectFailure ==
    \A t \in ConnectFailed :
        /\ task[t[1]][t[2]].status = "WARNING"
        /\ task[t[1]][t[2]].metrics = NoMetrics
        /\ ~PoolHas(connectionPool, Ip(t[2]))

\* ========================================================= traffic rate
\* What /interface/print answers for rx-byte and tx-byte, and what Date.now()
\* answers in milliseconds (the wall clock may step backwards)
CounterReads == {<<0, 0>>, <<100000000, 50000000>>, <<100000625, 50000000>>,
                 <<100000625, 40000000>>, <<225000000, 100000000>>}

ClockReads == {0, 1000, 10000}

\* (diff bytes * 8): bits
BitsAsBytes(bytes) == bytes

Bits(bytes) == bytes * 8

\* parseFloat(x.toFixed(2)) of the quotient num / den, in hundredths: the
\* nearest hundredth, the larger one on a tie
ToFixed2(num, den) ==
    LET q == num \div den
        r == num % den
    IN  IF 2 * r >= den THEN q + 1 ELSE q

\* rxBps = (diff * 8) / timeDiff with timeDiff = ms / 1000 seconds, then
\* (rxBps / 1_000_000).toFixed(2): in hundredths of a Mbps that is
\* diff * 8 * 1000 * 100 / (ms * 1_000_000) = diff * 8 / (ms * 10)
Mbps(bytes, ms) == ToFixed2(Bits(bytes), ms * 10)

\* if (currentRx >= last.rx && currentTx >= last.tx): no counter wrapped
NotLowerRxOnly(last, rx, tx) == rx >= last.rx

NotLower(last, rx, tx) == rx >= last.rx /\ tx >= last.tx

\* The rates of one observation against the cached entry
Rates(last, rx, tx, time) ==
    IF last.has /\ time - last.time > 0 /\ NotLower(last, rx, tx)
    THEN <<Mbps(rx - last.rx, time - last.time), Mbps(tx - last.tx, time - last.time)>>
    ELSE <<0, 0>>

\* trafficCache.set(cacheKey, {rx, tx, time})
CacheKeep(cache, k, rx, tx, time) == cache

CacheSetAll(cache, k, rx, tx, time) ==
    [j \in DOMAIN cache |-> [has |-> TRUE, rx |-> rx, tx |-> tx, time |-> time]]

CacheFirstOnly(cache, k, rx, tx, time) ==
    IF cache[k].has THEN cache
    ELSE [cache EXCEPT ![k] = [has |-> TRUE, rx |-> rx, tx |-> tx, time |-> time]]

CacheSet(cache, k, rx, tx, time) ==
    [cache EXCEPT ![k] = [has |-> TRUE, rx |-> rx, tx |-> tx, time |-> time]]

\* The traffic block of fetchMetrics for key k ends without having read
\* counters: rxMbps and txMbps keep their initial 0 and the cache is not
\* written.
NoRead(k, kind) ==
    /\ traffic' = [NoRun EXCEPT !.kind = kind, !.key = k, !.last = trafficCache[k]]
    /\ UNCHANGED trafficCache
    /\ UNCHANGED <<pollVars, chunked, evaluated, raise, sockets, memory, pollInterval>>

\* if (wanInterface) is false: the block is skipped
NoInterface(k) == NoRead(k, "noIface")

\* conn.write('/interface/print', ...) throws: the block's catch logs it
QueryFails(k) == NoRead(k, "throws")

\* the query answers no row: "No stats found for interface"
QueryEmpty(k) == NoRead(k, "empty")

\* Run t read the counters of key k and found no cache entry for it
FirstObservation(t, k) == t.kind = "rows" /\ t.key = k /\ ~t.last.has

\* the query answers the counters rd at clock reading now: the rates are
\* computed against the cached entry and the cache is set
CountersRead(k, rd, now) ==
    /\ traffic' = [kind |-> "rows", key |-> k, last |-> trafficCache[k],
                   rx |-> rd[1], tx |-> rd[2], time |-> now,
                   rxMbps |-> Rates(trafficCache[k], rd[1], rd[2], now)[1],
                   txMbps |-> Rates(trafficCache[k], rd[1], rd[2], now)[2],
                   second |-> FirstObservation(traffic, k)]
    /\ trafficCache' = CacheSet(trafficCache, k, rd[1], rd[2], now)
    /\ UNCHANGED <<pollVars, chunked, evaluated, raise, sockets, memory, pollInterval>>

InitBatched == Init /\ revision = "batched"

NextTraffic ==
    \/ \E k \in TrafficKeys : NoInterface(k)
    \/ \E k \in TrafficKeys : QueryFails(k)
    \/ \E k \in TrafficKeys : QueryEmpty(k)
    \/ \E k \in TrafficKeys, rd \in CounterReads, now \in ClockReads :
          CountersRead(k, rd, now)

SpecTraffic == InitBatched /\ [][NextTraffic]_vars

\* The last run read counters that are not lower than the cached ones, later
\* than the cached entry
Grew == /\ traffic.kind = "rows" /\ traffic.last.has
        /\ traffic.rx >= traffic.last.rx /\ traffic.tx >= traffic.last.tx
        /\ traffic.time > traffic.last.time

\* h hundredths of a Mbps is (bytes * 8) / (ms / 1000) bits per second in
\* Mbps, rounded to 2 decimals
IsRate(h, bytes, ms) ==
    LET d == h * (ms * 10) - bytes * 8
    IN  -((ms * 10) \div 2) <= d /\ d <= (ms * 10) \div 2

\* C12: with non-decreasing counters and a later timestamp the rates are
\* (rx - rxPrev) * 8 / (t - tPrev) and (tx - txPrev) * 8 / (t - tPrev) in Mbps
\* rounded to 2 decimals; cached (100000000, 50000000) at 0 s and observed
\* (225000000, 100000000) at 10 s give 100.00 and 40.00.
C12_RateFormula ==
    Grew =>
        /\ IsRate(traffic.rxMbps, traffic.rx - traffic.last.rx,
                  traffic.time - traffic.last.time)
        /\ IsRate(traffic.txMbps, traffic.tx - traffic.last.tx,
                  traffic.time - traffic.last.time)
        /\ (/\ traffic.last.rx = 100000000 /\ traffic.last.tx = 50000000
            /\ traffic.last.time = 0 /\ traffic.rx = 225000000
            /\ traffic.tx = 100000000 /\ traffic.time = 10000)
           => (traffic.rxMbps = 10000 /\ traffic.txMbps = 4000)

\* C12 witness: the run of the worked example, with rates 100.00 and 40.00
C12_Witness ==
    /\ Grew
    /\ traffic.last.rx = 100000000 /\ traffic.last.tx = 50000000
    /\ traffic.last.time = 0
    /\ traffic.rx = 225000000 /\ traffic.tx = 100000000 /\ traffic.time = 10000
    /\ traffic.rxMbps = 10000 /\ traffic.txMbps = 4000

\* The last run read a counter that is lower than its cached value
Wrapped == /\ traffic.kind = "rows" /\ traffic.last.has
           /\ (traffic.rx < traffic.last.rx \/ traffic.tx < traffic.last.tx)

\* The cache entry of the last run's key holds exactly what the run read
CacheHoldsRead ==
    trafficCache[traffic.key] =
        [has |-> TRUE, rx |-> traffic.rx, tx |-> traffic.tx, time |-> traffic.time]

\* C13: when either counter read is lower than its cached value, both rates
\* of the observation are 0 and the cache entry of the key is replaced by the
\* counters and the timestamp just read.
C13_ResetGivesZero ==
    Wrapped => (traffic.rxMbps = 0 /\ traffic.txMbps = 0 /\ CacheHoldsRead)

\* C13 witness: rx grew and tx fell below the cached value at a later time,
\* and the cache holds the lower counter.
C13_Witness ==
    /\ Wrapped
    /\ traffic.rx > traffic.last.rx /\ traffic.tx < traffic.last.tx
    /\ traffic.time > traffic.last.time
    /\ trafficCache[traffic.key].tx = traffic.tx

\* =========================================================== chunkArray
MaxList == 45        \* longest device list that is split
BatchLimit == 20     \* chunkArray(nodes, 20)

\* chunkArray(arr, size) is called with a list of len devices
Chunk(len, size) ==
    /\ chunked' = [len |-> len, size |-> size, out |-> chunkArray(len, size)]
    /\ UNCHANGED <<pollVars, trafficCache, traffic, evaluated, raise, sockets, memory, pollInterval>>

NextChunk == \E len \in 0..MaxList, size \in 1..BatchLimit : Chunk(len, size)

SpecChunk == InitBatched /\ [][NextChunk]_vars

\* The devices of a chunk in list order, and the chunks one after another
RECURSIVE InOrder(_)
InOrder(S) ==
    IF S = {} THEN << >>
    ELSE LET lo == CHOOSE x \in S : \A y \in S : x <= y
         IN  <<lo>> \o InOrder(S \ {lo})

RECURSIVE Concat(_, _)
Concat(out, i) ==
    IF i > Len(out) THEN << >> ELSE InOrder(out[i]) \o Concat(out, i + 1)

ChunkSizes(out) == [i \in 1..Len(out) |-> Cardinality(out[i])]

\* C14: N devices split with chunk size C give ceil(N / C) chunks that,
\* concatenated in order, are the original list; every chunk but the last
\* has C devices, none is empty, N = 0 gives no chunk, and 45 devices with
\* chunk size 20 give chunks of 20, 20 and 5.
C14_ChunksPartitionList ==
    chunked.size > 0 =>
        LET N == chunked.len
            C == chunked.size
            k == Len(chunked.out)
        IN  /\ k * C >= N /\ (k > 0 => (k - 1) * C < N)
            /\ Concat(chunked.out, 1) = [j \in 1..N |-> j]
            /\ \A i \in 1..k : /\ chunked.out[i] # {}
                               /\ i < k => Cardinality(chunked.out[i]) = C
            /\ (N = 0) => (k = 0)
            /\ (N = 45 /\ C = 20) => ChunkSizes(chunked.out) = <<20, 20, 5>>

\* C14 witness: 45 devices were split with chunk size 20 into 20, 20, 5.
C14_Witness ==
    /\ chunked.len = 45 /\ chunked.size = 20
    /\ ChunkSizes(chunked.out) = <<20, 20, 5>>

\* ======================================================== chunk order
\* The number of the chunk that holds the n-th device of the list
ChunkOf(n) == ((n - 1) \div ChunkSize) + 1

\* C15: within a cycle of the chunked poller no device of a later chunk has
\* begun processing (its probe is not issued) before every device of every
\* earlier chunk has finished.
C15_ChunksInOrder ==
    \A c \in TickIds, n \in NodeIds :
        (revision = "batched" /\ Running(c) /\ task[c][n].pc # "idle")
        => \A m \in NodeIds : ChunkOf(m) < ChunkOf(n) => task[c][m].pc = "done"

\* C15 witness: the second chunk of a cycle is being probed and the first
\* chunk has finished.
C15_Witness ==
    \E c \in TickIds :
        /\ revision = "batched" /\ Running(c) /\ cycle[c].batch = 2
        /\ \E n \in NodeIds : ChunkOf(n) = 2 /\ task[c][n].pc = "ping"
        /\ \A m \in NodeIds : ChunkOf(m) = 1 => task[c][m].pc = "done"

\* ======================================================= offline devices
\* The steps of a task that hold a management session or query it
FetchSteps == {"connect", "resource", "health", "ppp", "writes"}

\* C16: for a device whose probe failed, no management connect or metrics
\* query is attempted in the cycle, and when its task reaches publishing an
\* active OFFLINE alert (severity CRITICAL) exists for it and it has no
\* metrics.
C16_OfflineAlertNoFetch ==
    \A c \in TickIds, n \in NodeIds :
        (revision = "batched" /\ task[c][n].latency = Unreachable)
        => /\ task[c][n].pc \notin FetchSteps
           /\ session[c][n] \notin {"connecting", "open"}
           /\ task[c][n].pc = "update" =>
                /\ ActiveRows(alerts, n, "OFFLINE") >= 1
                /\ Severity("OFFLINE") = "CRITICAL"
                /\ task[c][n].metrics = NoMetrics

\* C16 witness: a device failed its probe, its OFFLINE alert is stored and
\* its task is publishing without having opened a session.
C16_Witness ==
    \E c \in TickIds, n \in NodeIds :
        /\ revision = "batched" /\ task[c][n].pc = "update"
        /\ task[c][n].latency = Unreachable /\ task[c][n].status = "OFFLINE"
        /\ ActiveRows(alerts, n, "OFFLINE") = 1
        /\ session[c][n] = "none"

\* ==================================================== read block isolation
\* The health query of the fetch of task (c, n) failed: h = {} when the fetch
\* is about to return
HealthBlockFailed(c, n) ==
    /\ revision = "batched" /\ task[c][n].pc = "ppp" /\ task[c][n].h = <<0, 0>>

\* C17: when the health block of a fetch fails while the session is up, the
\* returned metrics bag carries the values of the other blocks (the cpu load
\* that was read) and has no temperature and no voltage field.
C17_FailedBlockAbsent ==
    [][ \A c \in TickIds, n \in NodeIds :
            (HealthBlockFailed(c, n) /\ task'[c][n].pc # "ppp")
            => /\ Has(task'[c][n].metrics, "cpuLoad")
               /\ task'[c][n].metrics["cpuLoad"] = task[c][n].res
               /\ ~Has(task'[c][n].metrics, "temperature")
               /\ ~Has(task'[c][n].metrics, "voltage") ]_vars

\* ======================================================= alert thresholds
\* Readings a successful fetch returns: parseInt(res['cpu-load'] || '0'),
\* parseInt(h['temperature'] || '0'), parseFloat(h['voltage'] || '0')
CpuReads == {0, 84, 85, 86, 90, 100}

TempReads == {0, 64, 65, 66}

VoltReads == {0, 19, 20, 21, 24}

\* AlertService.checkThresholds(node, metrics) builds its list of alerts
Evaluate(cpu, temp, volt) ==
    /\ evaluated' = [called |-> TRUE, metrics |-> MetricsBag(cpu, temp, volt),
                     pushed |-> checkThresholds(MetricsBag(cpu, temp, volt))]
    /\ UNCHANGED <<pollVars, trafficCache, traffic, chunked, raise, sockets, memory, pollInterval>>

NextAlerts ==
    \E cpu \in CpuReads, temp \in TempReads, volt \in VoltReads :
        Evaluate(cpu, temp, volt)

SpecAlerts == InitBatched /\ [][NextAlerts]_vars

\* The alert types the last evaluation pushed
Pushed == {evaluated.pushed[i] : i \in 1..Len(evaluated.pushed)}

\* C18: for a bag of a successful fetch, CPU_HIGH (CRITICAL) is raised iff
\* cpuLoad > 85, TEMP_HIGH (WARNING) iff temperature > 65 and VOLTAGE_LOW
\* (WARNING) iff voltage < 20; readings of exactly 85, 65, 20 raise nothing.
C18_ThresholdsExact ==
    evaluated.called =>
        /\ ("CPU_HIGH" \in Pushed) <=> (evaluated.metrics["cpuLoad"] > 85)
        /\ ("TEMP_HIGH" \in Pushed) <=> (evaluated.metrics["temperature"] > 65)
        /\ ("VOLTAGE_LOW" \in Pushed) <=> (evaluated.metrics["voltage"] < 20)
        /\ Severity("CPU_HIGH") = "CRITICAL"
        /\ Severity("TEMP_HIGH") = "WARNING"
        /\ Severity("VOLTAGE_LOW") = "WARNING"

\* ============================================== createAlert in sequence
MaxRaises == 2       \* createAlert calls per pair that are explored

\* createAlert(nodeId, type, ...) is called while no other call is in
\* progress, and its SELECT returns
RaiseSelect(k) ==
    /\ raise.pc = "idle"
    /\ raise.returned[k] < MaxRaises
    /\ raise' = [raise EXCEPT !.pc = "selected", !.pair = k,
                              !.found = ActiveRows(alerts, k[1], k[2])]
    /\ UNCHANGED <<revision, isPolling, ticks, skipped, faults, cycle, task, alerts,
                   detail, dashboard, influx, session, connectionPool,
                   trafficCache, traffic, chunked, evaluated, sockets, memory, pollInterval>>

\* if (existing.rows.length === 0) INSERT; the call returns
RaiseFinish ==
    /\ raise.pc = "selected"
    /\ alerts' = IF raise.found = 0
                 THEN InsertAlert(alerts, raise.pair[1], raise.pair[2])
                 ELSE alerts
    /\ raise' = [raise EXCEPT !.pc = "idle",
                              !.returned[raise.pair] = @ + 1]
    /\ UNCHANGED <<revision, isPolling, ticks, skipped, faults, cycle, task,
                   detail, dashboard, influx, session, connectionPool,
                   trafficCache, traffic, chunked, evaluated, sockets, memory, pollInterval>>

NextRaise == (\E k \in RaisePairs : RaiseSelect(k)) \/ RaiseFinish

SpecRaise == InitBatched /\ [][NextRaise]_vars

\* C19: createAlert for a pair that has an active alert inserts nothing and
\* leaves the alert store unchanged; after one or more calls in sequence for
\* a pair there is exactly one active row for it.
C19_RaiseIsIdempotent ==
    [][ /\ (raise.pc = "selected" /\ alerts[raise.pair] >= 1) => alerts' = alerts
        /\ \A k \in RaisePairs :
              alerts'[k] = IF raise'.returned[k] >= 1 THEN 1 ELSE 0 ]_vars

\* C19 witness: createAlert has returned twice for a pair and one active row
\* exists for it.
C19_Witness ==
    \E k \in RaisePairs : raise.returned[k] = 2 /\ raise.pc = "idle" /\ alerts[k] = 1

\* ================================================== rooms and delivery
\* socket.join(room) and socket.leave(room)
Join(rooms, room) == rooms \cup {room}

LeaveNothing(rooms, room) == rooms

Leave(rooms, room) == rooms \ {room}

\* io.on('connection'): the socket joins 'dashboard'
Connection(s) ==
    /\ ~sockets[s].connected
    /\ sockets' = [sockets EXCEPT ![s] =
                      [connected |-> TRUE, rooms |-> {DashboardRoom}, at |-> ticks,
                       last |-> <<"none", 0>>]]
    /\ UNCHANGED <<pollVars, trafficCache, traffic, chunked, evaluated, raise, memory, pollInterval>>

\* socket.on('subscribe_node', nodeId): socket.join(`node:${nodeId}`)
\* (joining a room the socket is in already changes nothing)
SubscribeNode(s, d) ==
    /\ sockets[s].connected
    /\ NodeRoom(d) \notin sockets[s].rooms
    /\ sockets' = [sockets EXCEPT ![s].rooms = Join(@, NodeRoom(d)), ![s].at = ticks,
                                  ![s].last = <<"none", 0>>]
    /\ UNCHANGED <<pollVars, trafficCache, traffic, chunked, evaluated, raise, memory, pollInterval>>

\* socket.on('unsubscribe_node', nodeId): socket.leave(`node:${nodeId}`)
\* (leaving a room the socket is not in changes nothing)
UnsubscribeNode(s, d) ==
    /\ sockets[s].connected
    /\ NodeRoom(d) \in sockets[s].rooms
    /\ sockets' = [sockets EXCEPT ![s].rooms = Leave(@, NodeRoom(d)), ![s].at = ticks,
                                  ![s].last = <<"unsubscribe", d>>]
    /\ UNCHANGED <<pollVars, trafficCache, traffic, chunked, evaluated, raise, memory, pollInterval>>

\* socket.on('disconnect'): socket.io has removed the socket from its rooms
Disconnect(s) ==
    /\ sockets[s].connected
    /\ sockets' = [sockets EXCEPT ![s] = [NoSocket EXCEPT !.at = ticks,
                                                          !.last = <<"disconnect", 0>>]]
    /\ UNCHANGED <<pollVars, trafficCache, traffic, chunked, evaluated, raise, memory, pollInterval>>

\* The devices whose rooms the clients ask for
Watched == {2, 3}

\* The chunked poller with clients that come and go
NextRooms ==
    \/ Tick
    \/ \E c \in TickIds : LoadDone(c)
    \/ \E c \in TickIds : FlushDone(c)
    \/ \E c \in TickIds, n \in NodeIds :
         \/ PingDone(c, n)
         \/ ConnectDone(c, n)
         \/ ResourceDone(c, n)
         \/ HealthDone(c, n)
         \/ PppDone(c, n)
         \/ AlertSelectDone(c, n)
         \/ AlertInsertDone(c, n)
         \/ UpdateDone(c, n)
    \/ \E s \in Sockets : Connection(s)
    \/ \E s \in Sockets, d \in Watched : SubscribeNode(s, d)
    \/ \E s \in Sockets, d \in Watched : UnsubscribeNode(s, d)
    \/ \E s \in Sockets : Disconnect(s)

\* The delivery of messages is followed on cycles in which nothing fails:
\* the budget of failures is spent from the start.
InitRooms ==
    /\ revision = "batched"
    /\ isPolling = FALSE
    /\ ticks = 0
    /\ skipped = {}
    /\ faults = MaxFaults
    /\ cycle = [c \in TickIds |-> IdleCycle]
    /\ task = [c \in TickIds |-> [n \in NodeIds |-> IdleTask]]
    /\ alerts = [k \in NodeIds \X AlertTypes |-> 0]
    /\ detail = {}
    /\ dashboard = {}
    /\ influx = {}
    /\ session = [c \in TickIds |-> [n \in NodeIds |-> "none"]]
    /\ connectionPool = [k \in Keys |-> NoClient]
    /\ trafficCache = [k \in TrafficKeys |-> NoEntry]
    /\ traffic = NoRun
    /\ chunked = NoCall
    /\ evaluated = NotEvaluated
    /\ raise = NoRaise
    /\ sockets = [s \in Sockets |-> NoSocket]
    /\ memory = NoMemory
    /\ pollInterval = "set"

SpecRooms == InitRooms /\ [][NextRooms]_vars

\* The detail messages of cycle c that socket s has received
Received(det, s, c) == {m \in det : m.cycle = c /\ s \in m.to}

\* Socket s has been in the room of device d and in no other device room
\* since before tick c fired
JoinedOnly(so, s, d, c) ==
    /\ so[s].connected /\ so[s].rooms = {DashboardRoom, NodeRoom(d)}
    /\ so[s].at < c

\* C20: a detail message for device d is delivered exactly to the sockets
\* that are in d's room when it is emitted; and a socket that is joined only
\* to the room of a device A of the list throughout a cycle that completes
\* has received exactly one detail message of that cycle, the one for A.
C20_DetailOnlyToRoom ==
    [][ /\ \A m \in detail' \ detail :
              m.to = {s \in Sockets : NodeRoom(m.nodeId) \in sockets[s].rooms}
        /\ \A c \in TickIds, s \in Sockets, d \in NodeIds :
              (/\ cycle'[c].pc = "ended" /\ cycle'[c].outcome = "ok"
               /\ d <= cycle'[c].len
               /\ JoinedOnly(sockets', s, d, c))
              => /\ Cardinality(Received(detail', s, c)) = 1
                 /\ \A m \in Received(detail', s, c) : m.nodeId = d ]_vars

\* C20 witness: a cycle over three devices has completed and a socket joined
\* only to the room of device 2 since before the cycle holds its one message,
\* while detail messages for the other devices were emitted to nobody.
C20_Witness ==
    \E c \in TickIds, s \in Sockets :
        /\ cycle[c].pc = "ended" /\ cycle[c].outcome = "ok" /\ cycle[c].len = 3
        /\ JoinedOnly(sockets, s, 2, c)
        /\ Cardinality(Received(detail, s, c)) = 1
        /\ \E m \in detail : m.cycle = c /\ m.nodeId # 2 /\ m.to = {}

\* C21: membership of a room lasts only as long as the client keeps it. Once a
\* socket has left the room of device d by unsubscribe_node, and until it acts
\* again, no detail message for d is delivered to it; once it has
\* disconnected it is in no room, neither a device's nor 'dashboard', and no
\* message of either kind is delivered to it.
C21_MembershipIsSessionScoped ==
    [][ \A s \in Sockets :
          /\ \A d \in NodeIds :
                sockets[s].last = <<"unsubscribe", d>>
                => /\ NodeRoom(d) \notin sockets[s].rooms
                   /\ \A m \in detail' \ detail : m.nodeId = d => s \notin m.to
          /\ sockets[s].last = <<"disconnect", 0>>
                => /\ sockets[s].rooms = {}
                   /\ \A m \in (detail' \ detail) \cup (dashboard' \ dashboard) :
                         s \notin m.to ]_vars

\* C21 witness: a socket left the room of device 2 before tick c fired and has
\* done nothing since; cycle c has emitted a detail message for device 2 to
\* nobody, and its dashboard summary to the socket.
C21_Witness ==
    \E c \in TickIds, s \in Sockets :
        /\ sockets[s].last = <<"unsubscribe", 2>> /\ sockets[s].at < c
        /\ \E m \in detail : m.cycle = c /\ m.nodeId = 2 /\ m.to = {}
        /\ \E m \in dashboard : m.cycle = c /\ m.to = {s}

\* The fields of an entry of the dashboard summary
SummaryFields == {"nodeId", "status", "latency", "txRate", "rxRate", "cpuLoad", "memoryUsage"}

\* C22: every dashboard:update of the chunked poller holds one entry for each
\* device of the list its cycle loaded and no other entry, and every entry
\* has the fields nodeId, status, latency, txRate, rxRate, cpuLoad and
\* memoryUsage; for a list of three devices it holds three entries.
C22_SummaryOnePerDevice ==
    \A m \in dashboard :
        revision = "batched"
        => /\ Len(m.updates) = cycle[m.cycle].len
           /\ \A n \in 1..cycle[m.cycle].len :
                 Cardinality({i \in 1..Len(m.updates) : m.updates[i].nodeId = n}) = 1
           /\ \A i \in 1..Len(m.updates) : DOMAIN m.updates[i] = SummaryFields

\* C22 witness: a summary over a list of three devices has been emitted, one
\* of them OFFLINE and one ONLINE with a cpu reading.
C22_Witness ==
    /\ revision = "batched"
    /\ \E m \in dashboard :
          /\ cycle[m.cycle].len = 3 /\ Len(m.updates) = 3
          /\ \E i, j \in 1..3 : /\ m.updates[i].status = "OFFLINE"
                                 /\ m.updates[j].status = "ONLINE"
                                 /\ m.updates[j].cpuLoad > 0

\* The sequence is not empty and its last element is x
EndsWith(q, x) == Len(q) > 0 /\ q[Len(q)] = x

\* C23: in the chunked poller a device without credentials whose probe is
\* answered is published ONLINE with an empty metrics bag (detail message,
\* dashboard entry and point) in the step that follows the probe, which
\* attempts no connection and touches no alert; its task then only waits for
\* the inventory update: it never fetches and never reaches the alert store.
C23_NoCredsOnlineEmpty ==
    [][ \A c \in TickIds, n \in {Bare} :
          revision = "batched"
          => /\ session[c][n] = "none"
             /\ task[c][n].pc \notin {"connect", "resource", "health", "ppp"}
             /\ task[c][n].pc \in {"alertSel", "alertIns"}
                   => task[c][n].latency = Unreachable
             /\ (/\ task[c][n].pc = "ping" /\ task'[c][n].pc # "ping"
                 /\ task'[c][n].latency # Unreachable)
                => /\ task'[c][n].pc = "update"
                   /\ task'[c][n].status = "ONLINE"
                   /\ task'[c][n].metrics = NoMetrics
                   /\ session' = session
                   /\ alerts' = alerts
                   /\ \E m \in detail' \ detail :
                         m.nodeId = n /\ m.status = "ONLINE" /\ m.metrics = NoMetrics
                   /\ cycle[c].pc # "ended"
                         => /\ EndsWith(cycle'[c].updates,
                                        Summary(n, task'[c][n]))
                            /\ EndsWith(cycle'[c].points,
                                        [node_id |-> n, latency |-> PingMs,
                                         status_code |-> 1, fields |-> NoMetrics]) ]_vars

\* C23 witness: the probe of the device without credentials was answered
\* and its task waits for the inventory update, its detail message emitted.
C23_Witness ==
    \E c \in TickIds, n \in {Bare} :
        /\ revision = "batched"
        /\ task[c][n].pc = "update" /\ task[c][n].latency = PingMs
        /\ \E m \in detail : m.cycle = c /\ m.nodeId = n /\ m.status = "ONLINE"

\* C24: in the chunked poller a task that leaves the alert store, whether its
\* createAlert returned or threw, has its point built and goes on to the
\* inventory update of its device.
C24_StoreWritesIndependent ==
    [][ \A c \in TickIds, n \in NodeIds :
          (/\ revision = "batched"
           /\ task[c][n].pc \in {"alertSel", "alertIns"}
           /\ task'[c][n].pc \notin {"alertSel", "alertIns"})
          => /\ task'[c][n].pc = "update"
             /\ cycle[c].pc # "ended"
                   => EndsWith(cycle'[c].points, Point(n, task'[c][n])) ]_vars

\* C25: in the chunked poller a store write that fails does not end the
\* cycle early: a task whose inventory update returned or threw is done, not
\* rejected, and a cycle whose flush returned or threw has emitted its
\* dashboard summary when it ends.
C25_StoreFailureCycleContinues ==
    [][ \A c \in TickIds :
          revision = "batched"
          => /\ \A n \in NodeIds :
                   (task[c][n].pc = "update" /\ task'[c][n].pc # "update")
                   => task'[c][n].pc = "done"
             /\ (cycle[c].pc = "flush" /\ cycle'[c].pc = "ended")
                   => \E m \in dashboard' : m.cycle = c ]_vars

\* C26: no timer callback is left by an exception: every cycle ends by
\* returning, from its try block, after its catch block, or on an empty list.
C26_NothingEscapesTheCallback ==
    \A c \in TickIds : cycle[c].outcome # "escaped"

\* C27: in the chunked poller the flush of a cycle is awaited, and its points
\* are written and its summary emitted, only when the task of every device
\* of the list has completed; the summary holds an entry and the write a
\* point for each of them, and a summary is emitted only in a step that has
\* the write of its cycle done.
C27_FlushThenSummaryAfterAllChunks ==
    [][ \A c \in TickIds :
          revision = "batched"
          => /\ cycle[c].pc = "flush"
                   => \A n \in 1..cycle[c].len : task[c][n].pc = "done"
             /\ \A w \in influx' \ influx :
                   w.cycle = c => /\ cycle[c].pc = "flush"
                                  /\ Len(w.points) = cycle[c].len
             /\ \A m \in dashboard' \ dashboard :
                   m.cycle = c => /\ cycle[c].pc = "flush"
                                  /\ Len(m.updates) = cycle[c].len
                                  /\ \E w \in influx' : w.cycle = c ]_vars

\* C27 witness: a cycle over three devices, two chunks, has written its points
\* and emitted its summary.
C27_Witness ==
    /\ revision = "batched"
    /\ \E c \in TickIds :
          /\ cycle[c].len = 3 /\ Len(Batches(c)) = 2
          /\ \E w \in influx : w.cycle = c /\ Len(w.points) = 3
          /\ \E m \in dashboard : m.cycle = c

\* C28: after a run of the traffic block that read counters, the cache entry
\* of its key is exactly the counters and the clock reading of that run,
\* whatever the entry was before (absent, later in time, higher counters)
\* and whether or not a rate came out; a run that read no counters leaves
\* the cache as it was.
C28_CacheFollowsEveryRead ==
    /\ traffic.kind = "rows" => CacheHoldsRead
    /\ traffic.kind \in {"noIface", "throws", "empty"}
          => trafficCache[traffic.key] = traffic.last

\* C28 witness: the clock stepped backwards between two reads of a key, no
\* rate was computed, and the cache entry carries the earlier clock reading.
C28_Witness ==
    /\ traffic.kind = "rows" /\ traffic.last.has
    /\ traffic.time < traffic.last.time
    /\ traffic.rxMbps = 0 /\ traffic.txMbps = 0
    /\ trafficCache[traffic.key].time = traffic.time
    /\ trafficCache[traffic.key].rx = traffic.rx

\* C29: a run that reads counters for a key without cache entry reports both
\* rates 0 and creates the entry from what it read; the next run for that
\* key finds that entry, and when its counters are not lower and its clock
\* reading is later its rates are those of the difference between the two
\* observations.
C29_FirstObservationSeeds ==
    /\ (traffic.kind = "rows" /\ ~traffic.last.has)
          => (traffic.rxMbps = 0 /\ traffic.txMbps = 0 /\ CacheHoldsRead)
    /\ traffic.second
          => /\ traffic.last.has
             /\ Grew => /\ IsRate(traffic.rxMbps, traffic.rx - traffic.last.rx,
                                   traffic.time - traffic.last.time)
                         /\ IsRate(traffic.txMbps, traffic.tx - traffic.last.tx,
                                   traffic.time - traffic.last.time)

\* C29 witness: the second observation of a key, 1 s after the first one,
\* with 625 more bytes received: 0.01 Mbps (5000 bit/s rounded).
C29_Witness ==
    /\ traffic.second /\ Grew
    /\ traffic.time - traffic.last.time = 1000
    /\ traffic.rx - traffic.last.rx = 625 /\ traffic.tx = traffic.last.tx
    /\ traffic.rxMbps = 1 /\ traffic.txMbps = 0

\* C30: a tick that fires while the in-flight flag is set is only counted as
\* skipped: the flag, the cycles with their buffers, the tasks, the sessions
\* and the pool, the traffic cache, the alert rows and everything published
\* or written stay as they were, so no list is loaded and no probe started.
C30_SkippedTickChangesNothing ==
    [][ (ticks' # ticks /\ isPolling)
        => /\ skipped' = skipped \cup {ticks'}
           /\ UNCHANGED <<isPolling, cycle, task, alerts, detail, dashboard, influx,
                          session, connectionPool, trafficCache>> ]_vars

\* C30 witness: the second tick was skipped while the first cycle, still
\* running, has a task waiting for its probe.
C30_Witness ==
    /\ 2 \in skipped /\ isPolling
    /\ Running(1)
    /\ \E n \in NodeIds : task[1][n].pc = "ping"

\* C31: in the pooled revisions a connect that fails puts no client into the
\* pool and leaves the pool as it was: the step in which the connect of a
\* task fails changes no pool entry, and the entry of its address does not
\* hold the client that failed.
C31_FailedConnectLeavesPool ==
    [][ \A c \in TickIds, n \in NodeIds :
          (/\ revision \in Pooled
           /\ task[c][n].pc = "connect" /\ session'[c][n] = "failed")
          => /\ connectionPool'[Ip(n)] # <<c, n>>
             /\ connectionPool' = connectionPool ]_vars

\* The buffer q holds one point for each of the devices 1..len and no other
OnePointEach(q, len) ==
    /\ Len(q) = len
    /\ \A n \in 1..len : \E i \in 1..Len(q) : q[i].node_id = n

\* C32: a cycle of the chunked poller that loaded a list of devices ends
\* from its flush, with a buffer that holds exactly one point per device of
\* the list; what is written for a cycle is that buffer, in one write, and
\* no second write is made for the cycle.
C32_OnePointPerDevicePerCycle ==
    [][ \A c \in TickIds :
          revision = "batched"
          => /\ (cycle[c].pc # "ended" /\ cycle'[c].pc = "ended" /\ cycle[c].len > 0)
                   => /\ cycle[c].pc = "flush"
                      /\ OnePointEach(cycle[c].points, cycle[c].len)
             /\ \A w \in influx' \ influx :
                   w.cycle = c => /\ w.points = cycle[c].points
                                  /\ \A v \in influx : v.cycle # c ]_vars

\* C33: every status the chunked poller publishes for a device is ONLINE,
\* WARNING or OFFLINE; it is OFFLINE exactly when the probe of the device
\* failed; and it is ONLINE when the fetch returned the readings of the
\* device, a cpu load above the alert threshold included.
C33_StatusFollowsProbe ==
    \A m \in detail :
        revision = "batched"
        => /\ m.status \in {"ONLINE", "WARNING", "OFFLINE"}
           /\ m.status = "OFFLINE" <=> m.latency = Unreachable
           /\ OrZero(m.metrics, "cpuLoad") = CpuHigh => m.status = "ONLINE"

\* =================================================== alert resolution
\* Mutant of resolveAlerts: the rows of the node whose type is not in the
\* list are deactivated.
resolveAlertsClears(rows, n, types) ==
    [k \in DOMAIN rows |-> IF k[1] = n /\ k[2] \notin types THEN 0 ELSE rows[k]]

\* resolveAlerts(nodeId, types): returns on an empty list, and has no
\* statement after that
resolveAlerts(rows, n, types) == IF types = {} THEN rows ELSE rows

\* The lists of types resolveAlerts is called with
TypeLists == {{}, {"CPU_HIGH"}, AlertTypes}

\* AlertService.resolveAlerts(n, types) is called and returns
Resolve(n, types) ==
    /\ alerts' = resolveAlerts(alerts, n, types)
    /\ raise' = [raise EXCEPT !.resolved =
                    @ \/ \E t \in AlertTypes : ActiveRows(alerts, n, t) >= 1]
    /\ UNCHANGED <<revision, isPolling, ticks, skipped, faults, cycle, task,
                   detail, dashboard, influx, session, connectionPool,
                   trafficCache, traffic, chunked, evaluated, sockets, memory, pollInterval>>

\* The poll cycles, with resolveAlerts called at any moment
NextStore ==
    \/ Next
    \/ \E n \in NodeIds, types \in TypeLists : Resolve(n, types)

SpecStore == Init /\ [][NextStore]_vars

Absent == -1

\* What the device answers for total-memory and free-memory
TotalReads == {Absent, 0, 1, 3, 200, 1000, 1024}

FreeReads == {Absent, 0, 1, 2, 199, 250, 715, 1000, 1024}

\* parseInt(x || dflt)
ParseOr(x, dflt) == IF x = Absent THEN dflt ELSE x

\* Math.round(num / den * 100) for num >= 0, den > 0: the nearest integer,
\* the larger one on a tie
RoundPct(num, den) == (200 * num + den) \div (2 * den)

\* Math.floor(num / den * 100) for num >= 0, den > 0
FloorPct(num, den) == (100 * num) \div den

\* mikrotik.ts: totalMem > 0 ? Math.round(((totalMem - freeMem) / totalMem) * 100) : 0
\* (a negative quotient, free above total, is not rounded here: "negative")
memUsage(total, free) ==
    LET totalMem == ParseOr(total, 0)
        freeMem == ParseOr(free, 0)
    IN  IF totalMem > 0
        THEN IF freeMem <= totalMem
             THEN [kind |-> "number", usage |-> RoundPct(totalMem - freeMem, totalMem)]
             ELSE [kind |-> "negative", usage |-> 0]
        ELSE [kind |-> "number", usage |-> 0]

\* part_005: Math.floor((parseInt(resource['free-memory'] || '0') /
\* parseInt(resource['total-memory'] || '1')) * 100); `resource` is the first
\* row of the answer, undefined when there is none, and 0 / 0 is NaN,
\* x / 0 is Infinity
memoryUsage(total, free) ==
    LET totalMem == ParseOr(total, 1)
        freeMem == ParseOr(free, 0)
    IN  IF total = Absent /\ free = Absent
        THEN [kind |-> "throws", usage |-> 0]
        ELSE IF totalMem = 0
        THEN [kind |-> IF freeMem = 0 THEN "NaN" ELSE "Infinity", usage |-> 0]
        ELSE [kind |-> "number", usage |-> FloorPct(freeMem, totalMem)]

\* fetchMetrics of mikrotik.ts computes memUsage from a resource block
MemUsage(total, free) ==
    /\ memory' = [by |-> "mikrotik.ts", total |-> total, free |-> free,
                  kind |-> memUsage(total, free).kind,
                  usage |-> memUsage(total, free).usage]
    /\ UNCHANGED <<pollVars, trafficCache, traffic, chunked, evaluated, raise, sockets,
                   pollInterval>>

\* fetchMetrics of part_005 computes memoryUsage from a resource block
MemoryUsage(total, free) ==
    /\ memory' = [by |-> "part_005", total |-> total, free |-> free,
                  kind |-> memoryUsage(total, free).kind,
                  usage |-> memoryUsage(total, free).usage]
    /\ UNCHANGED <<pollVars, trafficCache, traffic, chunked, evaluated, raise, sockets,
                   pollInterval>>

NextMemory ==
    \E total \in TotalReads, free \in FreeReads :
        MemUsage(total, free) \/ MemoryUsage(total, free)

SpecMemory == InitBatched /\ [][NextMemory]_vars

\* u is (total - free) / total * 100 rounded to an integer
IsUsedPct(u, total, free) ==
    LET d == 2 * (u * total - 100 * (total - free))
    IN  -total <= d /\ d <= total

\* C35: the memory usage computed from a resource block is a number; with
\* total > 0 and 0 <= free <= total it is (total - free) / total * 100
\* rounded to an integer and lies in 0..100; with total 0 or missing it is 0.
C35_MemoryPercent ==
    memory.by # "none"
    => LET total == ParseOr(memory.total, 0)
           free == ParseOr(memory.free, 0)
       IN  /\ (total > 0 /\ free <= total)
                => /\ memory.kind = "number"
                   /\ IsUsedPct(memory.usage, total, free)
                   /\ memory.usage \in 0..100
           /\ total = 0 => (memory.kind = "number" /\ memory.usage = 0)

\* C36: in poller.ts the client that a cycle took from pgPool is released
\* once: not at all while the cycle runs, and exactly once when the cycle
\* has ended, whatever way it ended.
C36_DbClientReleasedOnce ==
    \A c \in TickIds :
        (revision \in Pooled /\ cycle[c].db)
        => /\ Running(c) => cycle[c].released = 0
           /\ cycle[c].pc = "ended" => cycle[c].released = 1

\* ============================================================ stopPoller
\* closeAll: every pooled client is closed and the pool is cleared
closeAll(pool) == [k \in DOMAIN pool |-> NoClient]

closeAllSessions(pool, se) ==
    [c \in TickIds |-> [n \in NodeIds |->
        IF \E k \in DOMAIN pool : pool[k] = <<c, n>> THEN "closed" ELSE se[c][n]]]

\* stopPoller(): clearInterval(pollInterval); MikroTikService.closeAll()
StopPoller ==
    /\ pollInterval = "set"
    /\ pollInterval' = "cleared"
    /\ connectionPool' = closeAll(connectionPool)
    /\ session' = closeAllSessions(connectionPool, session)
    /\ UNCHANGED <<revision, isPolling, ticks, skipped, faults, cycle, task, alerts,
                   detail, dashboard, influx, trafficCache, traffic, chunked,
                   evaluated, raise, sockets, memory>>

\* The poller, stopped at any moment
NextStop == Next \/ StopPoller

SpecStop == Init /\ [][NextStop]_vars

\* C37: once stopPoller has returned no tick fires, and the connection pool
\* is empty and stays empty, whatever the cycle that was in flight does.
C37_StoppedPoolStaysEmpty ==
    [][ pollInterval = "cleared"
        => /\ ticks' = ticks
           /\ \A k \in Keys : /\ connectionPool[k] = NoClient
                               /\ connectionPool'[k] = NoClient ]_vars

\* C38: when a client that is open and is not the one pooled for its address
\* reports 'error' or 'close', the pool is left as it is and the client that
\* is pooled for the address stays open.
C38_ForeignEventSparesPooled ==
    [][ \A c \in TickIds, n \in NodeIds :
          (ClientEvent(c, n) /\ connectionPool[Ip(n)] # <<c, n>>)
          => /\ connectionPool' = connectionPool
             /\ PoolHas(connectionPool, Ip(n))
                   => session'[connectionPool[Ip(n)][1]][connectionPool[Ip(n)][2]]
                        = session[connectionPool[Ip(n)][1]][connectionPool[Ip(n)][2]] ]_vars

\* C39: a run of the traffic block that read no counters (no interface
\* configured, the query threw, no row answered) leaves the whole cache as
\* it was, and a run for one key leaves the entry of every other key as it
\* was.
C39_CacheFrame ==
    [][ /\ traffic'.kind \in {"noIface", "throws", "empty"}
              => trafficCache' = trafficCache
        /\ \A k \in TrafficKeys :
              k # traffic'.key => trafficCache'[k] = trafficCache[k] ]_vars

\* C39 witness: the counter query of a key threw while the key and another
\* key had entries in the cache: both entries are there, the key's entry is
\* the one the run found, and a later read of the key was not stored in the
\* other's.
C39_Witness ==
    /\ traffic.kind = "throws"
    /\ trafficCache[traffic.key].has
    /\ trafficCache[traffic.key] = traffic.last
    /\ \E k \in TrafficKeys :
          /\ k # traffic.key /\ trafficCache[k].has
          /\ trafficCache[k] # trafficCache[traffic.key]

====
